---------------------------- MODULE Spec2Model ----------------------------
(***************************************************************************)
(* A model of bank.py: the per-source transaction pipeline                 *)
(* (load_and_transform_data_from_source), the merger                       *)
(* (load_and_transform_data_from_sources), the aggregator                  *)
(* (aggregate_report / generate_reports) and the orchestration in main.    *)
(*                                                                         *)
(* Texts are sequences of one-character strings.  Amounts are integers     *)
(* (the properties stated here do not depend on floating-point rounding). *)
(* A row is a record of its cells, one field per column, plus the field na: *)
(* the set of the row's columns whose cell is missing (NaN / NaT); such a   *)
(* cell holds a fixed filler.                                               *)
(***************************************************************************)
EXTENDS Integers, Sequences, FiniteSets, TLC

VARIABLES
    sources,          \* settings["sources"], as far as the merger's loop has come
    source_types,     \* settings["sourceTypes"]: type name -> source type
    categorizations,  \* settings["categorizations"]: ordered rule map
    pc,               \* where main (and the function it is in) stands
    source,           \* load_and_transform_data_from_source: the enriched descriptor
    file,             \* load_and_transform_data_from_source: the rows read from the file
    source_data,      \* the merger's loop: the table the source just gave
    data,             \* the merger's accumulated table / main's merged table
    merged,           \* FALSE while data is still None (bank.py line 217)
    loaded,           \* the rows the sources gave so far, in the order given
    expenses,         \* main's expenses table
    aggregation_mappings, \* main's mapping: column -> "sum" or "first"
    reports,          \* grouping column -> aggregated table, as emitted
    artifacts,        \* the output files written so far, in order
    error,            \* "none", or the exception that ended the run
    text,             \* the Cleaner checked alone: the input text
    cleaned,          \* ... after one normalization
    recleaned         \* ... after a second normalization

vars == << sources, source_types, categorizations, pc, source, file, source_data, data,
           merged, loaded, expenses, aggregation_mappings, reports, artifacts,
           error, text, cleaned, recleaned >>

-----------------------------------------------------------------------------
(* Bounds of the model *)

\* most rows of one input file when a single source is explored in depth
MaxSourceRows == 2
\* most rows of all input files of a run together when whole runs are explored
MaxRows == 3
\* most sources in settings["sources"]
MaxSources == 2
\* most fragments an input text of the Cleaner is built of
MaxFragments == 3

-----------------------------------------------------------------------------
(* Sequences *)

RECURSIVE SumSeq(_)
SumSeq(s) == IF s = << >> THEN 0 ELSE Head(s) + SumSeq(Tail(s))

Range(s) == { s[k] : k \in 1..Len(s) }

SeqsUpTo(S, n) == UNION { [ 1..k -> S ] : k \in 0..n }

\* the injective sequences over S: every ordering of every subset of S
OrderedSubsets(S) ==
    { s \in SeqsUpTo(S, Cardinality(S)) :
        \A a, b \in 1..Len(s) : a # b => s[a] # s[b] }

-----------------------------------------------------------------------------
(* Text: str.strip, re.sub and str.lower as load_and_transform_data_from_source_clean_data uses them *)

Letters == { "a", "b", "c", "A", "B", "C" }
Digits == { "1", "2" }
Space == " "

RECURSIVE LStrip(_)
LStrip(s) == IF s # << >> /\ Head(s) = Space THEN LStrip(Tail(s)) ELSE s

RECURSIVE RStrip(_)
RStrip(s) ==
    IF s # << >> /\ s[Len(s)] = Space THEN RStrip(SubSeq(s, 1, Len(s) - 1)) ELSE s

\* str.strip()
Strip(s) == RStrip(LStrip(s))

\* \d{2}-\d{2}-\d{2} at position k of s
DateTail(s, k) ==
    /\ k + 7 <= Len(s)
    /\ s[k] \in Digits /\ s[k + 1] \in Digits /\ s[k + 2] = "-"
    /\ s[k + 3] \in Digits /\ s[k + 4] \in Digits /\ s[k + 5] = "-"
    /\ s[k + 6] \in Digits /\ s[k + 7] \in Digits

\* the length of the match of [A-Za-z]?\/\d{2}-\d{2}-\d{2} that starts at
\* position k of s, 0 when none does (the optional letter is tried first)
MatchLen(s, k) ==
    IF k + 1 <= Len(s) /\ s[k] \in Letters /\ s[k + 1] = "/" /\ DateTail(s, k + 2)
    THEN 10
    ELSE IF k <= Len(s) /\ s[k] = "/" /\ DateTail(s, k + 1) THEN 9
    ELSE 0

\* re.sub(regex, "", s): one left-to-right scan deleting each match found,
\* resuming after it (non-overlapping matches of the ORIGINAL string)
RECURSIVE SubFrom(_, _)
SubFrom(s, k) ==
    IF k > Len(s) THEN << >>
    ELSE IF MatchLen(s, k) > 0 THEN SubFrom(s, k + MatchLen(s, k))
    ELSE << s[k] >> \o SubFrom(s, k + 1)

ReSub(s) == SubFrom(s, 1)

LowerChar(c) ==
    CASE c = "A" -> "a" [] c = "B" -> "b" [] c = "C" -> "c" [] OTHER -> c

\* str.lower()
Lower(s) == [ k \in 1..Len(s) |-> LowerChar(s[k]) ]

\* the Text normalization of clean_data, lines 101-109
CleanText(s) == Lower(Strip(ReSub(Strip(s))))

\* keyword in row['Text']: kw is a contiguous substring of t
IsSubstring(kw, t) ==
    \E k \in 0..(Len(t) - Len(kw)) : SubSeq(t, k + 1, k + Len(kw)) = kw

-----------------------------------------------------------------------------
(* Calendar: what pandas' .dt accessors and strftime compute from a Date *)

IsLeap(y) == (y % 4 = 0 /\ y % 100 # 0) \/ y % 400 = 0

DaysInMonth(y, m) ==
    IF m = 2 THEN (IF IsLeap(y) THEN 29 ELSE 28)
    ELSE IF m \in { 4, 6, 9, 11 } THEN 30 ELSE 31

RECURSIVE DaysBeforeMonth(_, _)
DaysBeforeMonth(y, m) ==
    IF m = 1 THEN 0 ELSE DaysBeforeMonth(y, m - 1) + DaysInMonth(y, m - 1)

DayOfYear(d) == DaysBeforeMonth(d.y, d.m) + d.d

\* the proleptic Gregorian ordinal (datetime.toordinal); orders the dates
ToOrdinal(d) ==
    LET p == d.y - 1
    IN  365 * p + (p \div 4) - (p \div 100) + (p \div 400) + DayOfYear(d)

\* .dt.dayofweek: Monday = 0 .. Sunday = 6
DayOfWeek(d) == (ToOrdinal(d) + 6) % 7

\* the number of ISO-8601 weeks of year y
WeeksInYear(y) ==
    LET P(z) == (z + (z \div 4) - (z \div 100) + (z \div 400)) % 7
    IN  IF P(y) = 4 \/ P(y - 1) = 3 THEN 53 ELSE 52

\* (%G, %V): the ISO year and ISO week of d
IsoWeek(d) ==
    LET w == (DayOfYear(d) - (DayOfWeek(d) + 1) + 10) \div 7
    IN  IF w < 1 THEN << d.y - 1, WeeksInYear(d.y - 1) >>
        ELSE IF w > WeeksInYear(d.y) THEN << d.y + 1, 1 >>
        ELSE << d.y, w >>

WeekdayNames ==
    << "Monday", "Tuesday", "Wednesday", "Thursday", "Friday", "Saturday", "Sunday" >>

MonthNames ==
    << "January", "February", "March", "April", "May", "June", "July",
       "August", "September", "October", "November", "December" >>

\* line 65: {1: "Winter", 2: "Spring", 3: "Summer", 4: "Autumn"}
SeasonNames == << "Winter", "Spring", "Summer", "Autumn" >>

\* the columns lines 61-74 add, as one record.  Quarter "YYYY-Qn", Month
\* "YYYY-MM" and Week "GGGG-Wvv" are kept as the pairs the strings are
\* formatted from.
CalendarColumns(d) ==
    [ Year          |-> d.y,
      QuarterNumber |-> ((d.m - 1) \div 3) + 1,
      Quarter       |-> << d.y, ((d.m - 1) \div 3) + 1 >>,
      Season        |-> SeasonNames[((d.m % 12) + 3) \div 3],
      Month         |-> << d.y, d.m >>,
      MonthName     |-> MonthNames[d.m],
      DayOfMonth    |-> d.d,
      Week          |-> IsoWeek(d),
      WeekNumber    |-> IsoWeek(d)[2],
      Weekday       |-> WeekdayNames[DayOfWeek(d) + 1],
      IsWeekend     |-> DayOfWeek(d) \in { 5, 6 } ]

CalendarColumnNames ==
    { "Year", "QuarterNumber", "Quarter", "Season", "Month", "MonthName",
      "DayOfMonth", "Week", "WeekNumber", "Weekday", "IsWeekend" }

-----------------------------------------------------------------------------
(* Tables.  A table is [columns |-> the set of its column names, rows |-> the
   sequence of its rows]; a row is a record of its cells. *)

Date(y, m, d) == [ y |-> y, m |-> m, d |-> d ]

NoneTable == [ columns |-> { }, rows |-> << >> ]

Ok(t) == [ err |-> "none", t |-> t ]
Raise(e) == [ err |-> e, t |-> NoneTable ]

-----------------------------------------------------------------------------
(* load_and_transform_data_from_source, stage by stage.  Every stage takes
   and returns a result [err, t]: err is "none" or the exception raised, and
   a stage passes an earlier stage's exception on. *)

\* lines 38-53.  A descriptor is [keys, path, type, modifier, account]: keys
\* is the set of the keys the settings give it.
load_and_transform_data_from_source_enrich_source(original_source) ==
    IF "path" \notin original_source.keys
    THEN [ err |-> "ValueError: Source must have a path", source |-> original_source ]
    ELSE IF "type" \notin original_source.keys
    THEN [ err |-> "ValueError: Source must have a type", source |-> original_source ]
    ELSE [ err |-> "none",
           source |->
             [ original_source EXCEPT
                 !.keys = @ \cup { "modifier", "account" },
                 !.modifier = IF "modifier" \in original_source.keys THEN @ ELSE 1,
                 !.account = IF "account" \in original_source.keys THEN @ ELSE "Default" ] ]

\* lines 120-131: the source type is looked up (KeyError when the registry
\* has no such type), then the file is read by its extension.  contents is
\* the table pd.read_csv / pd.read_excel returns.
ReadFile(src, types, contents) ==
    IF src.type \notin DOMAIN types THEN Raise("KeyError: source type")
    ELSE IF src.path.ext \in { ".csv", ".xlsx" } THEN Ok(contents)
    ELSE Raise("ValueError: Unsupported file format")

\* lines 134-143: rename, drop the columns the source type does not map,
\* convert Date.  A source type is [columns, keys, minAmount, maxAmount]:
\* columns is the set of canonical names its mapping renames to.
RenameColumns(x, source_type) ==
    IF x.err # "none" THEN x
    ELSE LET kept == x.t.columns \cap source_type.columns
             Keep(r) == [ c \in kept |-> r[c] ] @@ [ na |-> r.na \cap kept ]
         IN  IF "Date" \in kept /\ \E k \in 1..Len(x.t.rows) : x.t.rows[k].unparseable
             THEN Raise("ParseError: pd.to_datetime")
             ELSE Ok([ columns |-> kept,
                       rows |-> [ k \in 1..Len(x.t.rows) |-> Keep(x.t.rows[k]) ] ])

\* lines 55-76
load_and_transform_data_from_source_add_additional_columns_from_date(original) ==
    IF "Date" \notin original.columns THEN original
    ELSE [ columns |-> original.columns \cup CalendarColumnNames,
           rows |-> [ k \in 1..Len(original.rows) |->
                        original.rows[k] @@ CalendarColumns(original.rows[k].Date) ] ]

\* line 84, for one Amount cell (NaN > 0 is false)
BaseType(r) == IF "Amount" \notin r.na /\ r.Amount > 0 THEN "Income" ELSE "Expense"

\* lines 78-86
load_and_transform_data_from_source_add_additional_columns_from_amount(original) ==
    IF "Amount" \notin original.columns THEN original
    ELSE [ columns |-> original.columns \cup { "Type" },
           rows |-> [ k \in 1..Len(original.rows) |->
                        original.rows[k] @@ [ Type |-> BaseType(original.rows[k]) ] ] ]

NotNa(r) == "Date" \notin r.na /\ "Amount" \notin r.na

\* lines 88-111.  re.sub raises TypeError on a NaN Text cell.
load_and_transform_data_from_source_clean_data(original) ==
    LET kept == SelectSeq(original.rows, NotNa)
    IN  IF "Text" \notin original.columns
        THEN Ok([ original EXCEPT !.rows = kept ])
        ELSE IF \E k \in 1..Len(kept) : "Text" \in kept[k].na
        THEN Raise("TypeError: expected string or bytes-like object")
        ELSE Ok([ original EXCEPT
                    !.rows = [ k \in 1..Len(kept) |->
                                 [ kept[k] EXCEPT !.Text = CleanText(@) ] ] ])

\* line 153
ApplyModifier(x, src) ==
    IF x.err # "none" THEN x
    ELSE Ok([ x.t EXCEPT
                !.rows = [ k \in 1..Len(x.t.rows) |->
                             [ x.t.rows[k] EXCEPT !.Amount = @ * src.modifier ] ] ])

\* lines 157-160: source['type'] is a string, and source['type']['minAmount']
\* indexes that string with a string, which raises TypeError before any row
\* is compared.
RangeFilter(x, source_type) ==
    IF x.err # "none" THEN x
    ELSE IF "minAmount" \in source_type.keys
    THEN Raise("TypeError: string indices must be integers")
    ELSE IF "maxAmount" \in source_type.keys
    THEN Raise("TypeError: string indices must be integers")
    ELSE x

\* lines 174-179: the keywords of one category, in order, up to the first hit
RECURSIVE KeywordHit(_, _)
KeywordHit(keywords, t) ==
    IF keywords = << >> THEN FALSE
    ELSE IF IsSubstring(Head(keywords), t) THEN TRUE
    ELSE KeywordHit(Tail(keywords), t)

\* lines 172-182 for one row: rules is the part of the rule map not yet
\* scanned, assigned the Category written so far ("": none), in_row whether
\* 'Category' is a label of the row iterrows yielded.
RECURSIVE ScanCategories(_, _, _, _)
ScanCategories(rules, t, assigned, in_row) ==
    IF rules = << >> THEN assigned
    ELSE LET now == IF KeywordHit(Head(rules).keywords, t)
                    THEN Head(rules).category ELSE assigned
         IN  IF in_row THEN now ELSE ScanCategories(Tail(rules), t, now, in_row)

\* lines 168-182.  iterrows builds every row from the columns the table has
\* when the loop starts, so 'Category' in row asks whether the table had a
\* Category column before the loop, whatever data.at has written since.
\* The first data.at creates the column, NaN in the rows not written.
ApplyCategories(x, rules) ==
    IF x.err # "none" THEN x
    ELSE IF "Text" \notin x.t.columns THEN x
    ELSE LET in_row == "Category" \in x.t.columns
             Cat(r) == ScanCategories(rules, r.Text, "", in_row)
             Put(r) == [ Category |-> Cat(r),
                         na |-> IF Cat(r) = "" THEN r.na \cup { "Category" } ELSE r.na ] @@ r
         IN  IF \A k \in 1..Len(x.t.rows) : Cat(x.t.rows[k]) = "" THEN x
             ELSE Ok([ columns |-> x.t.columns \cup { "Category" },
                       rows |-> [ k \in 1..Len(x.t.rows) |-> Put(x.t.rows[k]) ] ])

\* line 185: data['Category'] raises KeyError when no row was given one
FillUncategorized(x) ==
    IF x.err # "none" THEN x
    ELSE IF "Category" \notin x.t.columns THEN Raise("KeyError: 'Category'")
    ELSE Ok([ x.t EXCEPT
                !.rows = [ k \in 1..Len(x.t.rows) |->
                             IF "Category" \in x.t.rows[k].na
                             THEN [ x.t.rows[k] EXCEPT !.Category = "Uncategorized",
                                                       !.na = @ \ { "Category" } ]
                             ELSE x.t.rows[k] ] ])

\* lines 189 and 193
ReclassifyType(x) ==
    IF x.err # "none" THEN x
    ELSE Ok([ x.t EXCEPT
                !.rows = [ k \in 1..Len(x.t.rows) |->
                             [ x.t.rows[k] EXCEPT
                                 !.Type = IF x.t.rows[k].Category = "Investments" THEN "Investment"
                                          ELSE IF x.t.rows[k].Category = "Transfers" THEN "Transfer"
                                          ELSE @ ] ] ])

\* lines 196-197: the rule map's keys, then 'Uncategorized'
AllCategories(rules) == { rules[k].category : k \in 1..Len(rules) } \cup { "Uncategorized" }

\* a variant of line 207 in which AmountUncategorized takes every row's Amount
AmountOfCategoryCatchAll(r, category) ==
    IF r.Category = category \/ category = "Uncategorized" THEN r.Amount ELSE 0

\* line 207, for one row and one category
AmountOfCategory(r, category) == IF r.Category = category THEN r.Amount ELSE 0

\* f"Amount{category}"
AmountColumn(category) == "Amount" \o category

\* lines 205-207: one column Amount<category> per category
ExpandAmountColumns(x, rules) ==
    IF x.err # "none" THEN x
    ELSE LET names == { AmountColumn(c) : c \in AllCategories(rules) }
             Cells(r) == [ n \in names |->
                             LET c == CHOOSE c \in AllCategories(rules) : AmountColumn(c) = n
                             IN  AmountOfCategory(r, c) ]
         IN  Ok([ columns |-> x.t.columns \cup names,
                  rows |-> [ k \in 1..Len(x.t.rows) |->
                               Cells(x.t.rows[k]) @@ x.t.rows[k] ] ])

\* lines 113-209, after the descriptor is enriched: src is the enriched
\* descriptor and contents what reading its path returns
load_and_transform_data_from_source(src, types, rules, contents) ==
    LET read    == ReadFile(src, types, contents)
        renamed == RenameColumns(read, types[src.type])
        typed   == IF renamed.err # "none" THEN renamed
                   ELSE Ok(load_and_transform_data_from_source_add_additional_columns_from_amount(
                             load_and_transform_data_from_source_add_additional_columns_from_date(
                               renamed.t)))
        clean   == IF typed.err # "none" THEN typed
                   ELSE load_and_transform_data_from_source_clean_data(typed.t)
    IN  ExpandAmountColumns(
          ReclassifyType(
            FillUncategorized(
              ApplyCategories(
                RangeFilter(ApplyModifier(clean, src), types[src.type]),
                rules))),
          rules)

-----------------------------------------------------------------------------
(* load_and_transform_data_from_sources *)

\* pd.concat([data, source_data], ignore_index=True): the columns are united
\* and a row gets NaN in the columns its own table lacks
WithColumns(t, columns) ==
    [ k \in 1..Len(t.rows) |->
        [ c \in columns \ t.columns |-> "" ]
        @@ [ t.rows[k] EXCEPT !.na = @ \cup (columns \ t.columns) ] ]

Concatenate(a, b) ==
    [ columns |-> a.columns \cup b.columns,
      rows |-> WithColumns(a, a.columns \cup b.columns)
               \o WithColumns(b, a.columns \cup b.columns) ]

\* rows is ordered by Date, latest first
DateDescending(rows) ==
    \A a, b \in 1..Len(rows) :
        a < b => ToOrdinal(rows[a].Date) >= ToOrdinal(rows[b].Date)

\* a variant of line 230 that sorts with ascending=True
SortedByDateAscending(rows) ==
    { s \in { [ k \in 1..Len(rows) |-> rows[p[k]] ] : p \in Permutations(1..Len(rows)) } :
        \A a, b \in 1..Len(s) : a < b => ToOrdinal(s[a].Date) <= ToOrdinal(s[b].Date) }

\* line 230: sort_values("Date", ascending=False) sorts with its default
\* kind, quicksort, which is not stable: the result is some arrangement of
\* the rows that is ordered by Date, and which one is not specified.
SortedByDate(rows) ==
    { s \in { [ k \in 1..Len(rows) |-> rows[p[k]] ] : p \in Permutations(1..Len(rows)) } :
        DateDescending(s) }

-----------------------------------------------------------------------------
(* aggregate_report and generate_reports *)

WeekdaysSorted ==
    << "Friday", "Monday", "Saturday", "Sunday", "Thursday", "Tuesday", "Wednesday" >>

MonthNamesSorted ==
    << "April", "August", "December", "February", "January", "July", "June",
       "March", "May", "November", "October", "September" >>

SeasonsSorted == << "Autumn", "Spring", "Summer", "Winter" >>

IndexOf(s, v) == CHOOSE k \in 1..Len(s) : s[k] = v

\* the rank groupby's sort gives a key of column by (ascending): dates by
\* time, numbers by value, strings alphabetically ("YYYY-MM", "YYYY-Qn" and
\* "GGGG-Wvv" sort as their pairs do)
SortKey(by, v) ==
    CASE by = "Date" -> ToOrdinal(v)
      [] by \in { "Year", "DayOfMonth", "WeekNumber" } -> v
      [] by \in { "Quarter", "Month", "Week" } -> v[1] * 100 + v[2]
      [] by = "Weekday" -> IndexOf(WeekdaysSorted, v)
      [] by = "MonthName" -> IndexOf(MonthNamesSorted, v)
      [] by = "Season" -> IndexOf(SeasonsSorted, v)

\* the distinct keys, ascending
RECURSIVE SortedKeys(_, _)
SortedKeys(by, keys) ==
    IF keys = { } THEN << >>
    ELSE LET least == CHOOSE v \in keys :
                        \A w \in keys : SortKey(by, v) <= SortKey(by, w)
         IN  << least >> \o SortedKeys(by, keys \ { least })

\* the rows of one group, in the table's order
GroupOf(rows, by, v) == SelectSeq(rows, LAMBDA r : r[by] = v)

\* a variant of 'sum' that keeps the group's first value, as 'first' does
SumColumnAsFirst(group, column) == group[1][column]

\* 'sum' of a column over a group
SumColumn(group, column) == SumSeq([ k \in 1..Len(group) |-> group[k][column] ])

\* 'first' of a column over a group
FirstOfColumn(group, column) == group[1][column]

\* lines 247-252: data.groupby(by_column).agg(mapping without by_column)
\* .reset_index().  mappings is a function column -> "sum" | "first".
Aggregated(by_column, mappings, table) ==
    LET mapped == DOMAIN mappings \ { by_column }
        keys == SortedKeys(by_column, { table.rows[k][by_column] : k \in 1..Len(table.rows) })
        Row(v) ==
            LET group == GroupOf(table.rows, by_column, v)
            IN  [ c \in mapped \cup { by_column } |->
                    IF c = by_column THEN v
                    ELSE IF mappings[c] = "sum" THEN SumColumn(group, c)
                    ELSE FirstOfColumn(group, c) ]
    IN  IF by_column \notin table.columns THEN Raise("KeyError: by_column")
        ELSE IF ~(mapped \subseteq table.columns) THEN Raise("KeyError: Column(s) do not exist")
        ELSE Ok([ columns |-> mapped \cup { by_column },
                  rows |-> [ k \in 1..Len(keys) |-> Row(keys[k]) ] ])

\* lines 237-272: the files one report writes, in order.  The title is
\* folder/name, and the files go to output/folder/folder-name-*.
ReportFiles(folder, name) ==
    LET path_to == "output/" \o folder \o "/" \o folder \o "-" \o name
    IN  << path_to \o "-dataAll.csv", path_to \o "-dataTop25.csv",
           path_to \o "-diagramBar.png" >>

\* lines 281-289: the reports in order, << title, by_column >>
ReportList ==
    << << "a-byDate", "Date" >>, << "b-byWeekday", "Weekday" >>,
       << "c-byWeek", "Week" >>, << "d-byMonth", "Month" >>,
       << "e-byMonthName", "MonthName" >>, << "f-byQuarter", "Quarter" >>,
       << "g-bySeason", "Season" >>, << "h-byYear", "Year" >>,
       << "i-byCategory", "Category" >> >>

\* generate_reports from its k-th report on.  done is what the reports so
\* far gave: [err, reports: by_column -> table, files].  The first report
\* aggregates the transactions; every later one aggregates the first
\* report's table, expenses_by_date.
RECURSIVE ReportsFrom(_, _, _, _, _)
ReportsFrom(k, table, mappings, folder, done) ==
    IF k > Len(ReportList) \/ done.err # "none" THEN done
    ELSE LET by == ReportList[k][2]
             from == IF k = 1 THEN table ELSE done.reports["Date"]
             agg == Aggregated(by, mappings, from)
         IN  ReportsFrom(k + 1, table, mappings, folder,
                IF agg.err # "none" THEN [ done EXCEPT !.err = agg.err ]
                ELSE [ err |-> "none",
                       reports |-> (by :> agg.t) @@ done.reports,
                       files |-> done.files \o ReportFiles(folder, ReportList[k][1]) ])

NoReports == [ c \in { } |-> NoneTable ]

\* lines 277-289
generate_reports(table, mappings, folder) ==
    ReportsFrom(1, table, mappings, folder,
                [ err |-> "none", reports |-> NoReports, files |-> << >> ])

-----------------------------------------------------------------------------
(* The settings and the input files the model draws from *)

T_ab == << "A", "B" >>
T_a == << " ", "a", " ", "/", "1", "1", "-", "2", "2", "-", "1", "1" >>
T_c == << "c" >>

\* one rule of settings["categorizations"]: a category and its keywords
Rule(category) ==
    [ category |-> category,
      keywords |-> CASE category = "Food" -> << << "a" >> >>
                     [] category = "Investments" -> << << "b" >> >>
                     [] category = "Transfers" -> << << "b", "a" >>, << "a", "b" >> >> ]

RuleMap(categories) == [ k \in 1..Len(categories) |-> Rule(categories[k]) ]

\* every rule map over the three categories: each ordering of each subset
RuleMaps == { RuleMap(cs) : cs \in OrderedSubsets({ "Food", "Investments", "Transfers" }) }

RunRuleMaps ==
    { RuleMap(<< "Food" >>), RuleMap(<< "Food", "Transfers" >>),
      RuleMap(<< "Transfers", "Food" >>) }

Descriptor(keys, name, ext, type, modifier) ==
    [ keys |-> keys, path |-> [ name |-> name, ext |-> ext ], type |-> type,
      modifier |-> modifier, account |-> "" ]

NoSource == Descriptor({ }, "", "", "", 1)

\* the descriptors of a single source looked at in depth
SourceDescriptors ==
    { Descriptor({ "path", "type" }, "a", ".csv", "bank", 1),
      Descriptor({ "path", "type", "modifier" }, "b", ".xlsx", "bank", -1),
      Descriptor({ "path", "type", "modifier" }, "a", ".csv", "bank", 0) }

\* the descriptors of the sources of a whole run, the malformed ones included
RunDescriptors ==
    { Descriptor({ "path", "type" }, "a", ".csv", "bank", 1),
      Descriptor({ "type" }, "", "", "bank", 1),
      Descriptor({ "path" }, "a", ".csv", "", 1),
      Descriptor({ "path", "type" }, "a", ".txt", "bank", 1),
      Descriptor({ "path", "type" }, "a", ".csv", "card", 1) }

SourceType(columns, keys) ==
    [ columns |-> columns, keys |-> keys, minAmount |-> -1, maxAmount |-> 1 ]

SourceTypeChoices ==
    { [ t \in { "bank" } |-> SourceType({ "Date", "Amount", "Text" }, keys) ] :
        keys \in { { }, { "minAmount" }, { "maxAmount" } } }
    \cup { [ t \in { "bank" } |-> SourceType({ "Date", "Amount" }, { }) ] }

RunSourceTypes == [ t \in { "bank" } |-> SourceType({ "Date", "Amount", "Text" }, { }) ]

RawColumns == { "Date", "Amount", "Text" }

RawRow(date, amount, txt, na, unparseable) ==
    [ Date |-> date, Amount |-> amount, Text |-> txt, na |-> na,
      unparseable |-> unparseable ]

\* a Monday and the Tuesday after it, both of ISO week 2025-W01, and a
\* Monday of the next year
RunDates == { Date(2024, 12, 30), Date(2024, 12, 31), Date(2025, 6, 2) }

SourceRows ==
    { RawRow(Date(2024, 6, 17), amount, txt, { }, FALSE) :
        amount \in { -2, 1 }, txt \in { T_ab, T_a, T_c } }
    \cup { RawRow(Date(2024, 6, 17), -2, T_a, { "Date" }, FALSE),
           RawRow(Date(2024, 6, 17), 0, T_a, { "Amount" }, FALSE),
           RawRow(Date(2024, 6, 17), -2, << >>, { "Text" }, FALSE) }

RunRows ==
    { RawRow(date, amount, T_ab, { }, FALSE) : date \in RunDates, amount \in { -2, 1 } }
    \cup { RawRow(Date(2024, 6, 17), -1, T_ab, { }, TRUE) }

\* what reading the file of a single source may return
SourceFiles == SeqsUpTo(SourceRows, MaxSourceRows)

\* what reading the next file of a run may return
RunFiles == SeqsUpTo(RunRows, MaxRows - Len(data.rows))

Fragments ==
    { << "/" >>, << "1" >>, << "-" >>, << "a" >>, << "A" >>, << " " >>,
      << "/", "1", "1", "-", "2", "2", "-", "1", "1" >>,
      << "/", "1", "2", "-", "1" >>,
      << "1", "-", "2", "1" >> }

RECURSIVE Flatten(_)
Flatten(ss) == IF ss = << >> THEN << >> ELSE Head(ss) \o Flatten(Tail(ss))

InputTexts == { Flatten(fs) : fs \in SeqsUpTo(Fragments, MaxFragments) }

-----------------------------------------------------------------------------
(* main and the functions it calls, as steps *)

NoMappings == [ c \in { } |-> "" ]

Fail(e) == /\ error' = e
           /\ pc' = "failed"

\* line 219 and line 221: the loop takes the next source of the list, one
\* of descriptors, and load_and_transform_data_from_source runs on it;
\* contents ranges over what the source's file may hold.  The list has at
\* most most sources.
TransformSource(descriptors, files, most) ==
    /\ pc = "transform"
    /\ Len(sources) < most
    /\ \E original_source \in descriptors :
         LET e == load_and_transform_data_from_source_enrich_source(original_source)
         IN  /\ sources' = Append(sources, original_source)
             /\ IF e.err # "none"
                THEN /\ Fail(e.err)
                     /\ UNCHANGED << source, file, source_data >>
                ELSE \E contents \in files :
                       LET table == [ columns |-> RawColumns, rows |-> contents ]
                           r == load_and_transform_data_from_source(
                                  e.source, source_types, categorizations, table)
                           was_read == ReadFile(e.source, source_types, table).err = "none"
                       IN  /\ source' = e.source
                           /\ file' = IF was_read THEN contents ELSE << >>
                           /\ IF r.err # "none"
                              THEN Fail(r.err) /\ UNCHANGED source_data
                              ELSE /\ source_data' = r.t
                                   /\ pc' = "concat"
                                   /\ UNCHANGED error
    /\ UNCHANGED << source_types, categorizations, data, merged, loaded,
                    expenses, aggregation_mappings, reports, artifacts,
                    text, cleaned, recleaned >>

\* a variant of lines 224-227 that exports the table after every source
ConcatAndSave ==
    /\ pc = "concat"
    /\ data' = IF merged THEN Concatenate(data, source_data) ELSE source_data
    /\ merged' = TRUE
    /\ loaded' = loaded \o source_data.rows
    /\ source' = NoSource /\ file' = << >> /\ source_data' = NoneTable
    /\ artifacts' = Append(artifacts, "output/transactions_all.csv")
    /\ pc' = "transform"
    /\ UNCHANGED << sources, source_types, categorizations,
                    expenses, aggregation_mappings, reports, error,
                    text, cleaned, recleaned >>

\* lines 224-227; the call's locals are gone
Concat ==
    /\ pc = "concat"
    /\ data' = IF merged THEN Concatenate(data, source_data) ELSE source_data
    /\ merged' = TRUE
    /\ loaded' = loaded \o source_data.rows
    /\ source' = NoSource /\ file' = << >> /\ source_data' = NoneTable
    /\ pc' = "transform"
    /\ UNCHANGED << sources, source_types, categorizations,
                    expenses, aggregation_mappings, reports, artifacts, error,
                    text, cleaned, recleaned >>

\* line 219: the list of sources is exhausted
EndOfSources ==
    /\ pc = "transform"
    /\ pc' = "sort"
    /\ UNCHANGED << sources, source_types, categorizations, source, file,
                    source_data, data, merged, loaded, expenses,
                    aggregation_mappings, reports, artifacts, error,
                    text, cleaned, recleaned >>

\* line 230 (data is still None when the list of sources is empty)
SortByDate ==
    /\ pc = "sort"
    /\ IF merged
       THEN /\ \E s \in SortedByDate(data.rows) : data' = [ data EXCEPT !.rows = s ]
            /\ pc' = "save"
            /\ UNCHANGED error
       ELSE /\ Fail("AttributeError: 'NoneType' object has no attribute 'sort_values'")
            /\ UNCHANGED data
    /\ UNCHANGED << sources, source_types, categorizations, source, file, source_data,
                    merged, loaded, expenses, aggregation_mappings, reports,
                    artifacts, text, cleaned, recleaned >>

\* line 307
SaveTransactions ==
    /\ pc = "save"
    /\ artifacts' = Append(artifacts, "output/transactions_all.csv")
    /\ pc' = "mappings"
    /\ UNCHANGED << sources, source_types, categorizations, source, file, source_data,
                    data, merged, loaded, expenses, aggregation_mappings, reports,
                    error, text, cleaned, recleaned >>

\* lines 310-317
ColumnsToAggregateBy(table) ==
    { AmountColumn(c) :
        c \in { table.rows[k].Category : k \in 1..Len(table.rows) } \cup { "Uncategorized" } }
    \cup { "Amount" }

\* lines 322-334
AggregationMappings(table) ==
    [ c \in ColumnsToAggregateBy(table) |-> "sum" ]
    @@ [ c \in { "Year", "Quarter", "Season", "Month", "MonthName", "Week",
                 "WeekNumber", "Weekday", "IsWeekend", "DayOfMonth" } |-> "first" ]

Abs(n) == IF n < 0 THEN -n ELSE n

\* lines 337-341
Expenses(table) ==
    LET rows == SelectSeq(table.rows, LAMBDA r : r.Type = "Expense")
    IN  [ columns |-> table.columns,
          rows |-> [ k \in 1..Len(rows) |->
                       [ c \in DOMAIN rows[k] |->
                           IF c \in ColumnsToAggregateBy(table)
                           THEN Abs(rows[k][c]) ELSE rows[k][c] ] ] ]

\* lines 310-341
PrepareExpenses ==
    /\ pc = "mappings"
    /\ aggregation_mappings' = AggregationMappings(data)
    /\ expenses' = Expenses(data)
    /\ pc' = "reports"
    /\ UNCHANGED << sources, source_types, categorizations, source, file, source_data,
                    data, merged, loaded, reports, artifacts, error,
                    text, cleaned, recleaned >>

\* line 344.  Lines 346-374 run only when generate_reports returns.
GenerateReports ==
    /\ pc = "reports"
    /\ LET g == generate_reports(expenses, aggregation_mappings, "expenses")
       IN  /\ reports' = g.reports
           /\ artifacts' = artifacts \o g.files
           /\ error' = g.err
           /\ pc' = IF g.err = "none" THEN "yearly" ELSE "failed"
    /\ UNCHANGED << sources, source_types, categorizations, source, file, source_data,
                    data, merged, loaded, expenses, aggregation_mappings,
                    text, cleaned, recleaned >>

\* the Cleaner applied to a text, and to its own result
Clean ==
    /\ pc = "clean"
    /\ cleaned' = CleanText(text)
    /\ pc' = "reclean"
    /\ UNCHANGED << sources, source_types, categorizations, source, file, source_data,
                    data, merged, loaded, expenses, aggregation_mappings, reports,
                    artifacts, error, text, recleaned >>

Reclean ==
    /\ pc = "reclean"
    /\ recleaned' = CleanText(cleaned)
    /\ pc' = "cleaned"
    /\ UNCHANGED << sources, source_types, categorizations, source, file, source_data,
                    data, merged, loaded, expenses, aggregation_mappings, reports,
                    artifacts, error, text, cleaned >>

-----------------------------------------------------------------------------
(* Specifications *)

Idle ==
    /\ sources = << >> /\ source = NoSource /\ file = << >>
    /\ source_data = NoneTable /\ data = NoneTable /\ merged = FALSE
    /\ loaded = << >> /\ expenses = NoneTable
    /\ aggregation_mappings = NoMappings /\ reports = NoReports
    /\ artifacts = << >> /\ error = "none"

AfterLoad ==
    \/ Concat \/ EndOfSources \/ SortByDate \/ SaveTransactions
    \/ PrepareExpenses \/ GenerateReports

\* a whole run of main over up to MaxSources sources
Init ==
    /\ source_types = RunSourceTypes
    /\ categorizations \in RunRuleMaps
    /\ pc = "transform"
    /\ Idle
    /\ text = << >> /\ cleaned = << >> /\ recleaned = << >>

Next == TransformSource(RunDescriptors, RunFiles, MaxSources) \/ AfterLoad

Spec == Init /\ [][Next]_vars

\* a run of main over one source, its settings and file varied in depth
InitSource ==
    /\ source_types \in SourceTypeChoices
    /\ categorizations \in RuleMaps
    /\ pc = "transform"
    /\ Idle
    /\ text = << >> /\ cleaned = << >> /\ recleaned = << >>

NextSource == TransformSource(SourceDescriptors, SourceFiles, 1) \/ AfterLoad

SpecSource == InitSource /\ [][NextSource]_vars

\* the Cleaner's Text normalization on its own
InitClean ==
    /\ text \in InputTexts
    /\ cleaned = << >> /\ recleaned = << >>
    /\ pc = "clean"
    /\ source_types = RunSourceTypes /\ categorizations = << >>
    /\ Idle

NextClean == Clean \/ Reclean

SpecClean == InitClean /\ [][NextClean]_vars

-----------------------------------------------------------------------------
(* Properties *)

\* load_and_transform_data_from_source has just returned source_data
Returned == pc = "concat"

\* generate_reports was called and has ended
ReportsRan == pc \in { "failed", "yearly" } /\ DOMAIN aggregation_mappings # { }

HasKeyword(rule, t) == \E k \in 1..Len(rule.keywords) : IsSubstring(rule.keywords[k], t)

\* the first category of the rule map with a keyword in t, "" when none has
FirstMatchingCategory(rules, t) ==
    IF \E k \in 1..Len(rules) : HasKeyword(rules[k], t)
    THEN rules[CHOOSE k \in 1..Len(rules) :
                 /\ HasKeyword(rules[k], t)
                 /\ \A j \in 1..(k - 1) : ~HasKeyword(rules[j], t)].category
    ELSE ""

\* C1: a returned row whose Text holds a keyword of some category has the
\* FIRST category of the rule map, in its order, that has a keyword in Text.
C1_FirstMatchWins ==
    Returned =>
        \A k \in 1..Len(source_data.rows) :
            LET r == source_data.rows[k]
            IN  ("Text" \in source_data.columns
                 /\ FirstMatchingCategory(categorizations, r.Text) # "")
                => r.Category = FirstMatchingCategory(categorizations, r.Text)

RECURSIVE SumOfAmountColumns(_, _)
SumOfAmountColumns(r, categories) ==
    IF categories = { } THEN 0
    ELSE LET c == CHOOSE c \in categories : TRUE
         IN  r[AmountColumn(c)] + SumOfAmountColumns(r, categories \ { c })

Partitioned(r, categories) ==
    /\ \A c \in categories :
         r[AmountColumn(c)] = IF r.Category = c THEN r.Amount ELSE 0
    /\ SumOfAmountColumns(r, categories) = r.Amount
    /\ Cardinality({ c \in categories : r[AmountColumn(c)] # 0 }) <= 1
    /\ (\A c \in categories : r[AmountColumn(c)] = 0) <=> r.Amount = 0

\* C2: in every row a source returns, and in every row of the merged table,
\* Amount<C> is Amount when Category is C and 0 otherwise, for every C of the
\* rule map and for Uncategorized; so the Amount<C> columns sum to Amount, at
\* most one is non-zero, and all are zero exactly when Amount is zero.
C2_Partition ==
    /\ Returned =>
         \A k \in 1..Len(source_data.rows) :
             Partitioned(source_data.rows[k], AllCategories(categorizations))
    /\ merged =>
         \A k \in 1..Len(data.rows) :
             Partitioned(data.rows[k], AllCategories(categorizations))

\* a merged table of two rows, one in a category of a rule map of two or more
\* categories and one Uncategorized, both with a non-zero Amount, one of them
\* scaled by a modifier other than 1
C2_Witness ==
    /\ merged /\ Len(data.rows) = 2 /\ Len(categorizations) >= 2
    /\ \E a, b \in 1..2 :
         /\ data.rows[a].Category = categorizations[2].category
         /\ data.rows[b].Category = "Uncategorized"
         /\ data.rows[a].Amount # 0 /\ data.rows[b].Amount # 0
    /\ sources[1].modifier = -1

\* C3: in every returned row, Type is Investment when Category is
\* Investments, Transfer when Category is Transfers, and otherwise Income
\* when the row's modifier-scaled Amount is > 0 and Expense when it is <= 0.
C3_TypeFromCategoryAndAmount ==
    Returned =>
        \A k \in 1..Len(source_data.rows) :
            LET r == source_data.rows[k]
            IN  r.Type = IF r.Category = "Investments" THEN "Investment"
                         ELSE IF r.Category = "Transfers" THEN "Transfer"
                         ELSE IF r.Amount > 0 THEN "Income" ELSE "Expense"

\* C4: the per-source pipeline completes whatever the file and the rule map
\* (no row matching, an empty rule map and a schema without Text included),
\* and every returned row with no Text or with no keyword in its Text has
\* Category Uncategorized.
C4_UncategorizedDefault ==
    /\ error # "KeyError: 'Category'"
    /\ error # "TypeError: expected string or bytes-like object"
    /\ Returned =>
         \A k \in 1..Len(source_data.rows) :
             LET r == source_data.rows[k]
             IN  ("Text" \notin source_data.columns
                  \/ FirstMatchingCategory(categorizations, r.Text) = "")
                 => r.Category = "Uncategorized"

\* C5: the Text normalization is idempotent, clean(clean(x)) = clean(x).
C5_CleanIdempotent == pc = "cleaned" => recleaned = cleaned

\* the Amounts the range filter is to keep: those of the file's rows with a
\* Date and an Amount, scaled by the modifier, within the configured bounds
InRangeAmounts ==
    LET st == source_types[source.type]
        scaled == [ k \in 1..Len(SelectSeq(file, NotNa)) |->
                      SelectSeq(file, NotNa)[k].Amount * source.modifier ]
    IN  SelectSeq(scaled,
                  LAMBDA a : /\ ("minAmount" \in st.keys => a >= st.minAmount)
                             /\ ("maxAmount" \in st.keys => a <= st.maxAmount))

\* C6: with minAmount and/or maxAmount configured the per-source pipeline
\* completes and returns exactly the cleaned rows whose modifier-scaled
\* Amount is within the bounds; with neither configured it drops no row.
C6_RangeFilter ==
    /\ error # "TypeError: string indices must be integers"
    /\ Returned =>
         [ k \in 1..Len(source_data.rows) |-> source_data.rows[k].Amount ]
             = InRangeAmounts

\* s with row r put after the rows of s whose Date is not earlier than r's
RECURSIVE InsertByDate(_, _)
InsertByDate(s, r) ==
    IF s = << >> THEN << r >>
    ELSE IF ToOrdinal(Head(s).Date) >= ToOrdinal(r.Date)
         THEN << Head(s) >> \o InsertByDate(Tail(s), r)
         ELSE << r >> \o s

\* rows by Date, latest first, rows of equal Date in the order they have in rows
RECURSIVE StableByDate(_)
StableByDate(rows) ==
    IF rows = << >> THEN << >>
    ELSE InsertByDate(StableByDate(SubSeq(rows, 1, Len(rows) - 1)), rows[Len(rows)])

Count(s, r) == Cardinality({ k \in 1..Len(s) : s[k] = r })

SameRows(s, t) ==
    /\ Len(s) = Len(t)
    /\ \A r \in Range(s) \cup Range(t) : Count(s, r) = Count(t, r)

LatestFirst(rows) ==
    \A k \in 1..(Len(rows) - 1) :
        ToOrdinal(rows[k].Date) >= ToOrdinal(rows[k + 1].Date)

\* the merger has just returned
Merged == pc = "save"

DateDimensions ==
    { "Date", "Weekday", "Week", "Month", "MonthName", "Quarter", "Season", "Year" }

\* the transactions given to generate_reports whose column by is v
Having(by, v) == SelectSeq(expenses.rows, LAMBDA r : r[by] = v)

\* C8: for each date-derived dimension D, the report by D has exactly one row
\* per distinct value of D among the transactions given to generate_reports,
\* and its Amount and each Amount<Category> is the sum of that column over
\* the transactions with that value.
C8_AggregationTotals ==
    ReportsRan =>
        \A by \in DateDimensions :
            /\ by \in DOMAIN reports
            /\ LET rows == reports[by].rows
                   values == { expenses.rows[k][by] : k \in 1..Len(expenses.rows) }
               IN  /\ { rows[k][by] : k \in 1..Len(rows) } = values
                   /\ Len(rows) = Cardinality(values)
                   /\ \A k \in 1..Len(rows) :
                        \A c \in ColumnsToAggregateBy(data) :
                            rows[k][c] =
                                SumSeq([ j \in 1..Len(Having(by, rows[k][by])) |->
                                           Having(by, rows[k][by])[j][c] ])

\* three expenses, two of one Date and one of another Date of the same
\* Weekday: the by-Date report sums two transactions, and the by-Weekday
\* report sums two rows of the by-Date report
C8_Witness ==
    /\ ReportsRan /\ Len(expenses.rows) = 3
    /\ Cardinality({ expenses.rows[k].Date : k \in 1..3 }) = 2
    /\ Cardinality({ expenses.rows[k].Weekday : k \in 1..3 }) = 1
    /\ Len(reports["Weekday"].rows) = 1
    /\ reports["Weekday"].rows[1].Amount = 6

\* C9: given at least one Expense row, generate_reports with main's mapping
\* completes and emits the full-aggregate / top-25 pair of all nine
\* dimensions, Category included, in order.
C9_ReportCoverage ==
    (ReportsRan /\ Len(expenses.rows) >= 1) =>
        /\ error = "none"
        /\ DOMAIN reports = { ReportList[k][2] : k \in 1..Len(ReportList) }
        /\ \A k \in 1..Len(ReportList) :
             \E a, b \in 1..Len(artifacts) :
                 /\ a < b
                 /\ artifacts[a] = ReportFiles("expenses", ReportList[k][1])[1]
                 /\ artifacts[b] = ReportFiles("expenses", ReportList[k][1])[2]

\* the exceptions that end a source's pipeline
SourceErrors ==
    { "ValueError: Source must have a path", "ValueError: Source must have a type",
      "KeyError: source type", "ValueError: Unsupported file format",
      "ParseError: pd.to_datetime",
      "TypeError: expected string or bytes-like object",
      "TypeError: string indices must be integers", "KeyError: 'Category'" }

\* C10: when a source's pipeline fails, whatever the source's position in
\* the list, the run ends with that error and no artifact written; an
\* artifact is written only once every source is transformed and merged.
C10_FailFast ==
    /\ (pc = "failed" /\ error \in SourceErrors) => artifacts = << >>
    /\ pc \in { "transform", "concat", "sort", "save" } => artifacts = << >>
    /\ artifacts # << >> => merged /\ source_data = NoneTable

\* the second source of the list failed after the first was merged
C10_Witness ==
    /\ pc = "failed" /\ Len(sources) = 2 /\ merged /\ Len(data.rows) >= 1
    /\ error = "ValueError: Unsupported file format"
    /\ artifacts = << >>

=============================================================================
